---- MODULE Spec2Model ----
(***************************************************************************)
(* Content-example record service (backend/crud.py, backend/main.py,       *)
(* backend/models.py, backend/schemas.py, backend/config.py).              *)
(*                                                                         *)
(* Text that the code splits, joins or trims is a sequence of one-letter   *)
(* strings, so that "x,y" is <<"x", ",", "y">>; text the code only copies  *)
(* (title, source_url, content_snippet, notes) is an opaque string, and    *)
(* Python's None is the string "None".                                     *)
(***************************************************************************)
EXTENDS Integers, Sequences, FiniteSets, TLC

VARIABLES
    table,        \* content_examples: the set of rows of the one table
    AI_PROVIDER,  \* config.AI_PROVIDER, fixed when the process starts
    last,         \* the request handled last: what was asked, what came back
    sess,         \* the open database sessions of requests running side by side
    codec         \* a run of the tag codec on one input

vars == <<table, AI_PROVIDER, last, sess, codec>>

\* ------------------------------------------------------------------ bounds

\* Number of primary-key values the store hands out.
MaxId == 2

\* Longest tag list given to the codec.
MaxTags == 2

\* Longest tag (in characters) given to the codec.
MaxTagLen == 2

\* ------------------------------------------------------------- plain text

None == "None"

Comma == ","

Space == " "

\* The characters a tag given to the codec is made of.
TagChars == {"x", Comma}

\* All texts over `chars` of length at most n.
RECURSIVE TextsUpTo(_, _)
TextsUpTo(chars, n) ==
    IF n = 0 THEN {<<>>}
    ELSE LET shorter == TextsUpTo(chars, n - 1)
         IN  shorter \cup {Append(s, c) : s \in shorter, c \in chars}

\* All sequences over `elems` of length at most n.
RECURSIVE SeqsUpTo(_, _)
SeqsUpTo(elems, n) ==
    IF n = 0 THEN {<<>>}
    ELSE LET shorter == SeqsUpTo(elems, n - 1)
         IN  shorter \cup {Append(s, e) : s \in shorter, e \in elems}

HasComma(s) == \E i \in 1..Len(s) : s[i] = Comma

\* sep.join(pieces) of Python, sep = ",".
RECURSIVE Join(_)
Join(pieces) ==
    IF pieces = <<>> THEN <<>>
    ELSE IF Len(pieces) = 1 THEN pieces[1]
    ELSE pieces[1] \o <<Comma>> \o Join(Tail(pieces))

\* s.split(",") of Python: one piece more than there are commas; "" gives [""].
RECURSIVE Split(_)
Split(s) ==
    IF ~HasComma(s) THEN <<s>>
    ELSE LET i == CHOOSE k \in 1..Len(s) :
                      s[k] = Comma /\ \A j \in 1..(k - 1) : s[j] # Comma
         IN  <<SubSeq(s, 1, i - 1)>> \o Split(SubSeq(s, i + 1, Len(s)))

\* s.strip() of Python: white space removed at both ends.
RECURSIVE Strip(_)
Strip(s) ==
    IF s = <<>> THEN s
    ELSE IF s[1] = Space THEN Strip(Tail(s))
    ELSE IF s[Len(s)] = Space THEN Strip(SubSeq(s, 1, Len(s) - 1))
    ELSE s

\* ---------------------------------------------------------------- tag codec

\* A decoder that also drops empty pieces, as suggest_categories does.
str_to_tags_dropping(tags_str) ==
    IF tags_str # <<>>
    THEN SelectSeq(Split(tags_str), LAMBDA piece : piece # <<>>)
    ELSE <<>>

\* crud.tags_to_str: ",".join(tags) if tags else ""
tags_to_str(tags) == IF tags # <<>> THEN Join(tags) ELSE <<>>

\* crud.str_to_tags: tags_str.split(",") if tags_str else []
str_to_tags(tags_str) == IF tags_str # <<>> THEN Split(tags_str) ELSE <<>>

\* ------------------------------------------------------------- data model

Ids == 1..MaxId

Titles == {"A", "B"}

Urls == {None, "u"}

Snippets == {"hello"}

NotesTexts == {None, "n"}

X == <<"x">>

Y == <<"y">>

\* schemas.ContentExampleCreate: a payload that passed validation.
Example(title, source_url, notes, tags) ==
    [title |-> title, source_url |-> source_url, content_snippet |-> "hello",
     notes |-> notes, tags |-> tags]

\* The payloads requests carry: the required fields alone (tags absent);
\* every field set; and the other tag lists with the optional fields set
\* one at a time.
Payloads ==
    {Example("A", None, None, <<>>),
     Example("A", "u", "n", <<X, Y>>),
     Example("B", None, None, <<X>>),
     Example("A", "u", None, <<(<<>>)>>),
     Example("B", None, "n", <<(<<"x", Comma, "y">>)>>)}

\* The payloads of the requests that run side by side.
AllPayloads ==
    [title : Titles, source_url : Urls, content_snippet : Snippets,
     notes : NotesTexts, tags : {<<>>, <<X>>}]

Providers == {"openai", "claude", "other"}

\* What the text-completion backend can answer.
Completions == {<<"x", Comma, Space, "y">>, <<Space, Comma>>}

\* The outcomes of the one outbound call.
Outcomes ==
    {[kind |-> k, text |-> <<>>] : k \in {"network_failure", "non_2xx", "malformed"}}
    \cup {[kind |-> "success", text |-> c] : c \in Completions}

\* No outbound call is made.
NotCalled == [kind |-> "not_called", text |-> <<>>]

\* The row create/update build from a payload; tags go through tags_to_str.
RowOf(id, example) ==
    [id |-> id, title |-> example.title, source_url |-> example.source_url,
     content_snippet |-> example.content_snippet, notes |-> example.notes,
     tags |-> tags_to_str(example.tags)]

\* A primary-key assignment that may hand out a key already in use.
AnyIds(t) == Ids

\* models.ContentExample.id, Integer primary_key: the store assigns a key
\* that no row of the table holds.
FreshIds(t) == Ids \ {r.id : r \in t}

\* schemas.ContentExampleRead with orm_mode: the response is built from the
\* attributes of the ORM object; its tags attribute is the column's str.
ContentExampleRead(db_example) ==
    [id |-> db_example.id, title |-> db_example.title,
     source_url |-> db_example.source_url,
     content_snippet |-> db_example.content_snippet,
     notes |-> db_example.notes,
     tags |-> [py |-> "str", v |-> db_example.tags]]

\* ----------------------------------------------------------- record store

\* The value a session writes to column c of row r at flush time: the unit
\* of work puts into its UPDATE only the columns whose new value differs
\* from the value it loaded; the others keep what the table holds now.
Flushed(r, loaded, new, c) == IF new[c] # loaded[c] THEN new[c] ELSE r[c]

\* db.commit() after the attribute assignments of update_content_example:
\* UPDATE content_examples SET <changed columns> WHERE id = loaded.id.
commit_update(t, loaded, new) ==
    {IF r.id = loaded.id
     THEN [id |-> r.id,
           title |-> Flushed(r, loaded, new, "title"),
           source_url |-> Flushed(r, loaded, new, "source_url"),
           content_snippet |-> Flushed(r, loaded, new, "content_snippet"),
           notes |-> Flushed(r, loaded, new, "notes"),
           tags |-> Flushed(r, loaded, new, "tags")]
     ELSE r : r \in t}

\* crud.get_content_example: .filter(id == example_id).first();
\* <<row>> when a row has the id, <<>> for None.
get_content_example(t, example_id) ==
    IF \E r \in t : r.id = example_id
    THEN <<CHOOSE r \in t : r.id = example_id>>
    ELSE <<>>

\* crud.create_content_example: add, commit, refresh.
create_content_example(t, example, newid) ==
    LET db_example == RowOf(newid, example)
    IN  [table |-> t \cup {db_example}, row |-> <<db_example>>]

\* An update that keeps the old value of an optional field the payload omits.
update_merging(t, example_id, example) ==
    LET db_example == get_content_example(t, example_id)
    IN  IF Len(db_example) > 0
        THEN LET old == db_example[1]
                 new == RowOf(example_id, example)
                 merged == [new EXCEPT
                     !.source_url = IF new.source_url = None
                                    THEN old.source_url ELSE new.source_url,
                     !.notes = IF new.notes = None THEN old.notes ELSE new.notes]
                 t2 == commit_update(t, old, merged)
             IN  [table |-> t2, row |-> get_content_example(t2, example_id)]
        ELSE [table |-> t, row |-> <<>>]

\* An update that inserts the row when the id is not there.
update_upserting(t, example_id, example) ==
    LET db_example == get_content_example(t, example_id)
        new == RowOf(example_id, example)
    IN  IF Len(db_example) > 0
        THEN LET t2 == commit_update(t, db_example[1], new)
             IN  [table |-> t2, row |-> get_content_example(t2, example_id)]
        ELSE [table |-> t \cup {new}, row |-> <<new>>]

\* crud.update_content_example: read the row; if there is one, assign the
\* five attributes, commit and refresh; return the row or None.
update_content_example(t, example_id, example) ==
    LET db_example == get_content_example(t, example_id)
    IN  IF Len(db_example) > 0
        THEN LET t2 == commit_update(t, db_example[1], RowOf(example_id, example))
             IN  [table |-> t2, row |-> get_content_example(t2, example_id)]
        ELSE [table |-> t, row |-> <<>>]

\* A delete that reports the row but leaves it in the table.
delete_keeping(t, example_id) ==
    [table |-> t, row |-> get_content_example(t, example_id)]

\* crud.delete_content_example: read the row; if there is one, delete it
\* and commit; return the row as it was read, or None.
delete_content_example(t, example_id) ==
    LET db_example == get_content_example(t, example_id)
    IN  IF Len(db_example) > 0
        THEN [table |-> t \ {db_example[1]}, row |-> db_example]
        ELSE [table |-> t, row |-> <<>>]

\* All orders in which the rows of t can come back.
Orderings(t) ==
    {o \in [1..Cardinality(t) -> t] : \A i, j \in DOMAIN o : o[i] = o[j] => i = j}

\* crud.get_content_examples: .offset(skip).limit(limit).all() on `order`,
\* the order the store returns the rows in (the query has no ORDER BY).
get_content_examples(order, skip, limit) ==
    LET n == Len(order)
        lo == skip + 1
        hi == IF skip + limit < n THEN skip + limit ELSE n
    IN  IF lo > hi THEN <<>> ELSE SubSeq(order, lo, hi)

\* --------------------------------------------------- suggestion provider

\* [tag.strip() for tag in tags_str.split(",") if tag.strip()]
StrippedTags(tags_str) ==
    LET pieces == Split(tags_str)
        stripped == [i \in 1..Len(pieces) |-> Strip(pieces[i])]
    IN  SelectSeq(stripped, LAMBDA tag : tag # <<>>)

\* crud.suggest_categories under provider name `provider`, when the backend
\* call ends in `outcome`. raised: an exception leaves the function.
\*   openai: ChatCompletion.create raises on a network failure and on a
\*     non-2xx answer; choices[0].message['content'] raises on a malformed one.
\*   claude: requests.post raises on a network failure; a status other than
\*     200 returns []; response.json()["content"] raises on a malformed body.
\*   any other name: [] without a call.
suggest_categories(provider, outcome) ==
    IF provider = "openai"
    THEN IF outcome.kind = "success"
         THEN [raised |-> FALSE, tags |-> StrippedTags(outcome.text)]
         ELSE [raised |-> TRUE, tags |-> <<>>]
    ELSE IF provider = "claude"
    THEN IF outcome.kind = "success"
         THEN [raised |-> FALSE, tags |-> StrippedTags(outcome.text)]
         ELSE IF outcome.kind = "non_2xx"
         THEN [raised |-> FALSE, tags |-> <<>>]
         ELSE [raised |-> TRUE, tags |-> <<>>]
    ELSE [raised |-> FALSE, tags |-> <<>>]

\* Whether suggest_categories contacts a backend under this provider name.
CallsBackend(provider) == provider \in {"openai", "claude"}

\* ---------------------------------------------------------------- API layer

\* What a handler leaves behind: the table, the HTTP status, the rows of the
\* response body, the calls it made in order, and what suggest returned.
Reply(t, status, rows, calls, suggested) ==
    [table |-> t, status |-> status,
     result |-> [i \in 1..Len(rows) |-> ContentExampleRead(rows[i])],
     calls |-> calls, suggested |-> suggested]

\* A create that asks for suggestions whatever the payload holds.
always_suggest(example) == TRUE

\* main.create_example, line 21: `example.tags if example.tags else ...`.
wants_suggestion(example) == example.tags = <<>>

\* A create that hands the caller's payload, not the substituted one, on.
example_as_sent(example, tags) == example

\* main.create_example, lines 22-28: the payload with tags substituted.
example_with_tags(example, tags) == [example EXCEPT !.tags = tags]

\* main.create_example. An exception raised by suggest_categories leaves
\* the handler before the store is reached: a server error, nothing stored.
create_example(t, provider, example, outcome, newid) ==
    LET suggest == wants_suggestion(example)
        answer == suggest_categories(provider, outcome)
    IN  IF suggest /\ answer.raised
        THEN Reply(t, 500, <<>>, <<"suggest_categories">>, <<>>)
        ELSE LET tags == IF suggest THEN answer.tags ELSE example.tags
                 made == create_content_example(t, example_with_tags(example, tags), newid)
             IN  Reply(made.table, 200, made.row,
                       (IF suggest THEN <<"suggest_categories">> ELSE <<>>)
                           \o <<"create_content_example">>,
                       IF suggest THEN <<answer.tags>> ELSE <<>>)

\* main.read_examples.
read_examples(t, order, skip, limit) ==
    Reply(t, 200, get_content_examples(order, skip, limit),
          <<"get_content_examples">>, <<>>)

\* A found-or-404 answer: main.py raises HTTPException(404) on None.
FoundOr404(t, row, call) ==
    IF Len(row) = 0
    THEN Reply(t, 404, <<>>, <<call>>, <<>>)
    ELSE Reply(t, 200, row, <<call>>, <<>>)

\* main.read_example.
read_example(t, example_id) ==
    FoundOr404(t, get_content_example(t, example_id), "get_content_example")

\* main.update_example.
update_example(t, example_id, example) ==
    LET done == update_content_example(t, example_id, example)
    IN  FoundOr404(done.table, done.row, "update_content_example")

\* main.delete_example.
delete_example(t, example_id) ==
    LET done == delete_content_example(t, example_id)
    IN  FoundOr404(done.table, done.row, "delete_content_example")

\* ------------------------------------------------------------------ state

NoRequest ==
    [op |-> "none", id |-> 0, req |-> <<>>, status |-> 0, result |-> <<>>,
     calls |-> <<>>, suggested |-> <<>>, backend |-> "not_called"]

Request(op, id, req, reply, backend) ==
    [op |-> op, id |-> id, req |-> req, status |-> reply.status,
     result |-> reply.result, calls |-> reply.calls,
     suggested |-> reply.suggested, backend |-> backend]

Clients == {1, 2}

IdleSession == [pc |-> "idle", id |-> 0, req |-> <<>>, loaded |-> <<>>, status |-> 0]

NoSessions == [c \in Clients |-> IdleSession]

CodecIdle == [pc |-> "idle", tags |-> <<>>, stored |-> <<>>, back |-> <<>>]

\* The service after start-up: an empty table, one provider name configured.
Init ==
    /\ table = {}
    /\ AI_PROVIDER \in Providers
    /\ last = NoRequest
    /\ sess = NoSessions
    /\ codec = CodecIdle

\* ------------------------------------------- requests handled one at a time

\* The ids a request path can name: every key, and one no row ever has.
PathIds == 1..(MaxId + 1)

Skips == {0, 1}

Limits == {1, 100}

\* POST /examples/
CreateExample ==
    \E example \in Payloads, newid \in FreshIds(table) :
      \E outcome \in (IF wants_suggestion(example) /\ CallsBackend(AI_PROVIDER)
                      THEN Outcomes ELSE {NotCalled}) :
        LET reply == create_example(table, AI_PROVIDER, example, outcome, newid)
        IN  /\ table' = reply.table
            /\ last' = Request("create",
                               IF Len(reply.result) > 0 THEN reply.result[1].id ELSE 0,
                               <<example>>, reply,
                               outcome.kind)
            /\ UNCHANGED <<AI_PROVIDER, sess, codec>>

\* GET /examples/?skip=&limit=
ReadExamples ==
    \E order \in Orderings(table), skip \in Skips, limit \in Limits :
        LET reply == read_examples(table, order, skip, limit)
        IN  /\ table' = reply.table
            /\ last' = Request("list", 0, <<>>, reply, "not_called")
            /\ UNCHANGED <<AI_PROVIDER, sess, codec>>

\* GET /examples/{example_id}
ReadExample ==
    \E example_id \in PathIds :
        LET reply == read_example(table, example_id)
        IN  /\ table' = reply.table
            /\ last' = Request("get", example_id, <<>>, reply, "not_called")
            /\ UNCHANGED <<AI_PROVIDER, sess, codec>>

\* PUT /examples/{example_id}
UpdateExample ==
    \E example_id \in PathIds, example \in Payloads :
        LET reply == update_example(table, example_id, example)
        IN  /\ table' = reply.table
            /\ last' = Request("update", example_id, <<example>>, reply, "not_called")
            /\ UNCHANGED <<AI_PROVIDER, sess, codec>>

\* DELETE /examples/{example_id}
DeleteExample ==
    \E example_id \in PathIds :
        LET reply == delete_example(table, example_id)
        IN  /\ table' = reply.table
            /\ last' = Request("delete", example_id, <<>>, reply, "not_called")
            /\ UNCHANGED <<AI_PROVIDER, sess, codec>>

Next ==
    \/ CreateExample
    \/ ReadExamples
    \/ ReadExample
    \/ UpdateExample
    \/ DeleteExample

Spec == Init /\ [][Next]_vars

\* ------------------------------------------------ the tag codec on its own

\* The tag lists handed to the codec: every list of at most MaxTags tags of
\* at most MaxTagLen characters, commas and empty tags included.
TagInputs == SeqsUpTo(TextsUpTo(TagChars, MaxTagLen), MaxTags)

InitCodec ==
    /\ table = {}
    /\ AI_PROVIDER = "claude"
    /\ last = NoRequest
    /\ sess = NoSessions
    /\ codec \in {[pc |-> "input", tags |-> x, stored |-> <<>>, back |-> <<>>] :
                      x \in TagInputs}

\* tags_to_str on the input, as create and update call it.
Encode ==
    /\ codec.pc = "input"
    /\ codec' = [codec EXCEPT !.pc = "stored", !.stored = tags_to_str(codec.tags)]
    /\ UNCHANGED <<table, AI_PROVIDER, last, sess>>

\* str_to_tags on the stored form.
Decode ==
    /\ codec.pc = "stored"
    /\ codec' = [codec EXCEPT !.pc = "decoded", !.back = str_to_tags(codec.stored)]
    /\ UNCHANGED <<table, AI_PROVIDER, last, sess>>

NextCodec ==
    \/ Encode
    \/ Decode

SpecCodec == InitCodec /\ [][NextCodec]_vars

\* --------------------------------------------- updates running side by side

\* One stored record, any the service can hold, and two requests not yet begun.
InitConc ==
    /\ table \in {{RowOf(1, example)} : example \in AllPayloads}
    /\ AI_PROVIDER = "claude"
    /\ last = NoRequest
    /\ sess = NoSessions
    /\ codec = CodecIdle

\* update_content_example, line 35, in client c's own session: the row is
\* read; None ends the request with 404, nothing written.
UpdateRead(c) ==
    /\ sess[c].pc = "idle"
    /\ \E example_id \in Ids, example \in AllPayloads :
          LET db_example == get_content_example(table, example_id)
          IN  sess' = [sess EXCEPT ![c] =
                  [pc |-> IF Len(db_example) > 0 THEN "loaded" ELSE "done",
                   id |-> example_id, req |-> <<example>>, loaded |-> db_example,
                   status |-> IF Len(db_example) > 0 THEN 0 ELSE 404]]
    /\ UNCHANGED <<table, AI_PROVIDER, last, codec>>

\* update_content_example, lines 37-43, in client c's session: the five
\* attributes are assigned on the object read earlier and the session commits.
UpdateCommit(c) ==
    /\ sess[c].pc = "loaded"
    /\ table' = commit_update(table, sess[c].loaded[1], RowOf(sess[c].id, sess[c].req[1]))
    /\ sess' = [sess EXCEPT ![c].pc = "done", ![c].status = 200]
    /\ UNCHANGED <<AI_PROVIDER, last, codec>>

NextConc ==
    \/ \E c \in Clients : UpdateRead(c)
    \/ \E c \in Clients : UpdateCommit(c)

SpecConc == InitConc /\ [][NextConc]_vars

\* ------------------------------------------------------------------ claims

IdsOf(t) == {r.id : r \in t}

RowWithId(t, id) == CHOOSE r \in t : r.id = id

CommaFree(tags) == \A i \in 1..Len(tags) : ~HasComma(tags[i])

SuggestCalls(calls) ==
    Cardinality({i \in 1..Len(calls) : calls[i] = "suggest_categories"})

\* The create request handled last carried no tags, and the provider failed
\* (network failure, non-2xx status, malformed payload) or is not configured.
FailedSuggestion ==
    /\ last.op = "create"
    /\ last.req[1].tags = <<>>
    /\ \/ last.backend \in {"network_failure", "non_2xx", "malformed"}
       \/ ~CallsBackend(AI_PROVIDER)

\* C1: if the Suggestion Provider fails or is misconfigured, for every
\* provider name and every failure of the backend call, suggest returns an
\* empty sequence and the create request ends with a record stored whose
\* tags are empty.
C1_FailureStillCreates ==
    FailedSuggestion =>
        /\ last.status = 200
        /\ Len(last.suggested) = 1
        /\ last.suggested[1] = <<>>
        /\ \E r \in table : r.id = last.id /\ r.tags = <<>>

\* C2: a create whose payload carries a non-empty tags sequence makes no
\* call to suggest, and the record it stores holds the caller's tags.
C2_ExplicitTagsNoSuggestion ==
    (last.op = "create" /\ last.req[1].tags # <<>>) =>
        /\ SuggestCalls(last.calls) = 0
        /\ last.backend = "not_called"
        /\ last.status = 200
        /\ \E r \in table :
              /\ r.id = last.id
              /\ r.tags = tags_to_str(last.req[1].tags)

C2_Witness ==
    /\ last.op = "create"
    /\ last.req[1].tags = <<X, Y>>
    /\ last.status = 200
    /\ CallsBackend(AI_PROVIDER)

\* C3: a create with empty or absent tags calls suggest exactly once, before
\* the store's create; if suggest returns s, the stored record's tags are s,
\* the same elements in the same order.
C3_SuggestionPersistedVerbatim ==
    (last.op = "create" /\ last.req[1].tags = <<>>) =>
        /\ SuggestCalls(last.calls) = 1
        /\ last.calls[1] = "suggest_categories"
        /\ Len(last.suggested) = 1 =>
              /\ last.calls = <<"suggest_categories", "create_content_example">>
              /\ last.status = 200
              /\ \E r \in table :
                    /\ r.id = last.id
                    /\ r.tags = tags_to_str(last.suggested[1])
                    /\ str_to_tags(r.tags) = last.suggested[1]

C3_Witness ==
    /\ last.op = "create"
    /\ last.req[1].tags = <<>>
    /\ last.suggested = <<(<<X, Y>>)>>
    /\ \E r \in table : r.id = last.id /\ r.tags = <<"x", Comma, "y">>

\* C4: get, update and delete on an id that is not in the store answer 404
\* with no record, and leave the table as it was.
C4_MissingIdNoChange ==
    [][(/\ last'.op \in {"get", "update", "delete"}
        /\ last'.id \notin IdsOf(table))
       => (/\ last'.status = 404
           /\ last'.result = <<>>
           /\ table' = table)]_vars

C4_Witness ==
    /\ last.op = "update"
    /\ last.status = 404
    /\ last.id \in Ids
    /\ table # {}

\* C5: update on an existing id is a full replace: afterwards the record
\* with that id holds the payload's title, source_url, content_snippet,
\* notes and tags (an omitted optional field is None), keeps its id, and
\* every other record is unchanged.
C5_UpdateFullReplace ==
    [][(last'.op = "update" /\ last'.id \in IdsOf(table))
       => LET id == last'.id
              example == last'.req[1]
              now == {r \in table' : r.id = id}
          IN  /\ last'.status = 200
              /\ Cardinality(now) = 1
              /\ \A r \in now :
                    /\ r.title = example.title
                    /\ r.source_url = example.source_url
                    /\ r.content_snippet = example.content_snippet
                    /\ r.notes = example.notes
                    /\ r.tags = tags_to_str(example.tags)
                    /\ last'.result = <<ContentExampleRead(r)>>
              /\ {r \in table' : r.id # id} = {r \in table : r.id # id}]_vars

C5_Witness ==
    /\ last.op = "update"
    /\ last.status = 200
    /\ last.req[1].source_url = None
    /\ last.req[1].notes = None
    /\ \E r \in table : r.id = last.id /\ r.source_url = None /\ r.notes = None
    /\ \E r \in table : r.id # last.id /\ r.source_url # None /\ r.notes # None

\* C6: delete on an existing id removes exactly that record and returns it
\* as it was just before; from then on, until a create, the id is not in
\* the store and a get on it answers 404.
C6_DeleteRemovesAndReturns ==
    [][/\ (last'.op = "delete" /\ last'.id \in IdsOf(table))
          => LET old == RowWithId(table, last'.id)
             IN  /\ last'.status = 200
                 /\ last'.result = <<ContentExampleRead(old)>>
                 /\ table' = table \ {old}
                 /\ last'.id \notin IdsOf(table')
       /\ \A id \in PathIds :
             (id \notin IdsOf(table) /\ last'.op # "create")
             => /\ id \notin IdsOf(table')
                /\ (last'.op = "get" /\ last'.id = id) => last'.status = 404]_vars

C6_Witness ==
    /\ last.op = "delete"
    /\ last.status = 200
    /\ Len(last.result) = 1
    /\ last.id \notin IdsOf(table)
    /\ table # {}

\* The codec has run on a list whose tags hold no comma.
DecodedCommaFree == codec.pc = "decoded" /\ CommaFree(codec.tags)

\* C7 as stated: for every tag list x whose elements hold no comma (the
\* empty list and lists with empty-string elements included),
\* str_to_tags(tags_to_str(x)) = x.
C7_RoundTrip == DecodedCommaFree => codec.back = codec.tags

\* C7 as amended: the same for every comma-free tag list except the list
\* made of the one empty string.
C7_RoundTripButOneEmptyTag ==
    (DecodedCommaFree /\ codec.tags # <<(<<>>)>>) => codec.back = codec.tags

C7_Witness ==
    /\ DecodedCommaFree
    /\ codec.tags = <<X, (<<>>)>>
    /\ codec.stored = <<"x", Comma>>
    /\ codec.back = codec.tags

\* C8: the record returned to the caller carries tags as the ordered
\* sequence supplied: after a create with comma-free tags x the response
\* has the assigned id and tags = x, and every record a get or a list
\* returns carries the list its stored form decodes to.
C8_ResponseTagsAreTheList ==
    /\ (/\ last.op = "create"
        /\ last.status = 200
        /\ last.req[1].tags # <<>>
        /\ CommaFree(last.req[1].tags))
       => /\ last.result[1].id \in Ids
          /\ last.result[1].tags.py = "list"
          /\ last.result[1].tags.v = last.req[1].tags
    /\ last.op \in {"get", "list"}
       => \A i \in 1..Len(last.result) :
             /\ last.result[i].tags.py = "list"
             /\ last.result[i].tags.v =
                    str_to_tags(RowWithId(table, last.result[i].id).tags)

\* C9: no two stored records share an id; create assigns an id that no
\* stored record has and leaves the records there were; update, get and
\* list leave the set of ids as it is, and delete takes away only the id
\* it names.
C9_IdsUniqueAndStable ==
    /\ [](\A r1, r2 \in table : r1.id = r2.id => r1 = r2)
    /\ [][/\ (last'.op = "create" /\ last'.status = 200)
             => /\ last'.id \notin IdsOf(table)
                /\ IdsOf(table') = IdsOf(table) \cup {last'.id}
                /\ table \subseteq table'
          /\ (last'.op = "create" /\ last'.status # 200) => table' = table
          /\ last'.op \in {"update", "get", "list"} => IdsOf(table') = IdsOf(table)
          /\ last'.op = "delete"
             => /\ IdsOf(table) \ {last'.id} = IdsOf(table')
                /\ table' \subseteq table]_vars

C9_Witness ==
    /\ Cardinality(table) = 2
    /\ Cardinality(IdsOf(table)) = 2
    /\ last.op = "create"
    /\ last.status = 200
    /\ last.id = 1

\* Both clients have finished an update of record 1.
BothUpdated == \A c \in Clients : sess[c].pc = "done" /\ sess[c].id = 1

\* C10: for any interleaving of two updates of the same existing id, the
\* final stored record equals, in every field, the payload of one of the
\* two updates and is never a mixture of fields from both.
C10_LastWriterWins ==
    BothUpdated =>
        \E c \in Clients : RowWithId(table, 1) = RowOf(1, sess[c].req[1])

====
